---- MODULE Spec2Model ----
(***************************************************************************)
(* A model of scraper.py: the date normaliser (parse_date), the tabular    *)
(* extractor (scrape_wiwi_table) with its detail-page extractor            *)
(* (scrape_wiwi_details), the narrative extractor (scrape_imfs) and the    *)
(* aggregator (main).                                                      *)
(*                                                                         *)
(* Texts are TLA+ strings over ASCII; a character is a string of length 1. *)
(* The HTML tree that BeautifulSoup hands to the code is modelled by       *)
(* records holding the texts the code reads from it.                       *)
(***************************************************************************)
EXTENDS Integers, Sequences, FiniteSets, TLC

VARIABLES
    pc,            \* position of the running call
    date_parts,    \* parse_date: <<weekday, date, trailing>>, the pieces of its argument
    date_str,      \* parse_date: its argument
    date_result,   \* parse_date: what it returned or raised
    page,          \* the top-level page the running extractor was given
    events,        \* the list the last extractor call returned
    DETAIL_CACHE,  \* scraper.py:135, url -> mapping
    next_src,      \* main: index in SEMINARS of the next table to scrape
    all_events,    \* main: the concatenated extractor output
    events_json,   \* main: <<>> until written, then <<the list dumped>>
    fetch_failed,  \* main: sources whose top-level fetch raised
    scraped,       \* main: sources whose extractor was called
    lookup,        \* scrape_wiwi_details: the last call, [url, result, repeat]
    first_lookup,  \* history: url -> the mapping its first lookup returned
    fetch_log,     \* history: the calls of fetch(url) made by scrape_wiwi_details
    lookups        \* history: the number of calls of scrape_wiwi_details

vars == <<pc, date_parts, date_str, date_result, page, events, DETAIL_CACHE, next_src,
          all_events, events_json, fetch_failed, scraped, lookup, first_lookup,
          fetch_log, lookups>>

\* what a sequence of detail-page lookups adds to the state
detail_vars == <<lookup, first_lookup, fetch_log, lookups>>

-----------------------------------------------------------------------------
(* Characters and the str methods the code uses                            *)

\* s[i-1:i]: the character at 1-based index i, "" outside the string
Ch(s, i) == IF i >= 1 /\ i <= Len(s) THEN SubSeq(s, i, i) ELSE ""

DigitChars == {"0", "1", "2", "3", "4", "5", "6", "7", "8", "9"}

LowerChars == {"a", "b", "c", "d", "e", "f", "g", "h", "i", "j", "k", "l", "m",
               "n", "o", "p", "q", "r", "s", "t", "u", "v", "w", "x", "y", "z"}

UpperChars == {"A", "B", "C", "D", "E", "F", "G", "H", "I", "J", "K", "L", "M",
               "N", "O", "P", "Q", "R", "S", "T", "U", "V", "W", "X", "Y", "Z"}

\* [A-Za-z] (the umlauts of the code's classes are outside the ASCII inputs)
AlphaChars == LowerChars \cup UpperChars

\* \w
WordChars == AlphaChars \cup DigitChars \cup {"_"}

\* \s, and what str.strip() removes
SpaceChars == {" ", "\t", "\n"}

DigitVal(c) ==
    CASE c = "0" -> 0 [] c = "1" -> 1 [] c = "2" -> 2 [] c = "3" -> 3
      [] c = "4" -> 4 [] c = "5" -> 5 [] c = "6" -> 6 [] c = "7" -> 7
      [] c = "8" -> 8 [] c = "9" -> 9

DigitChar(n) ==
    CASE n = 0 -> "0" [] n = 1 -> "1" [] n = 2 -> "2" [] n = 3 -> "3"
      [] n = 4 -> "4" [] n = 5 -> "5" [] n = 6 -> "6" [] n = 7 -> "7"
      [] n = 8 -> "8" [] n = 9 -> "9"

LowerCh(c) ==
    CASE c = "A" -> "a" [] c = "B" -> "b" [] c = "C" -> "c" [] c = "D" -> "d"
      [] c = "E" -> "e" [] c = "F" -> "f" [] c = "G" -> "g" [] c = "H" -> "h"
      [] c = "I" -> "i" [] c = "J" -> "j" [] c = "K" -> "k" [] c = "L" -> "l"
      [] c = "M" -> "m" [] c = "N" -> "n" [] c = "O" -> "o" [] c = "P" -> "p"
      [] c = "Q" -> "q" [] c = "R" -> "r" [] c = "S" -> "s" [] c = "T" -> "t"
      [] c = "U" -> "u" [] c = "V" -> "v" [] c = "W" -> "w" [] c = "X" -> "x"
      [] c = "Y" -> "y" [] c = "Z" -> "z" [] OTHER -> c

RECURSIVE Lower(_)
\* str.lower()
Lower(s) ==
    IF s = "" THEN ""
    ELSE Lower(SubSeq(s, 1, Len(s) - 1)) \o LowerCh(Ch(s, Len(s)))

RECURSIVE ToInt(_)
\* int() of a run of digits
ToInt(s) ==
    IF s = "" THEN 0
    ELSE 10 * ToInt(SubSeq(s, 1, Len(s) - 1)) + DigitVal(Ch(s, Len(s)))

SetMin(S) == CHOOSE x \in S : \A y \in S : x <= y

\* dict.get(key, default)
Get(map, key, default) == IF key \in DOMAIN map THEN map[key] ELSE default

\* the first element of a sequence that is not empty ("" or <<>>), its last
\* element when all the others are: a chain of "if x: return x" ending in a default
FirstNonEmpty(xs) == xs[SetMin({i \in 1..Len(xs) : Len(xs[i]) > 0 \/ i = Len(xs)})]

SetMax(S) == CHOOSE x \in S : \A y \in S : x >= y

\* str.strip(chars)
StripChars(s, chars) ==
    LET keep == {i \in 1..Len(s) : Ch(s, i) \notin chars}
    IN  IF keep = {} THEN "" ELSE SubSeq(s, SetMin(keep), SetMax(keep))

\* str.strip()
Strip(s) == StripChars(s, SpaceChars)

\* str.startswith(p)
StartsWith(s, p) == Len(s) >= Len(p) /\ SubSeq(s, 1, Len(p)) = p

\* p in s
Contains(s, p) ==
    \E i \in 1..(Len(s) + 1) : i + Len(p) - 1 <= Len(s) /\ SubSeq(s, i, i + Len(p) - 1) = p

\* the index of the first occurrence of character c in s, 0 when there is none
IndexOf(s, c) ==
    LET at == {i \in 1..Len(s) : Ch(s, i) = c}
    IN  IF at = {} THEN 0 ELSE SetMin(at)

\* the first index >= i whose character is outside chars (Len(s) + 1 at the end):
\* where a greedy run [chars]* that starts at i stops
SpanEnd(s, i, chars) ==
    LET stop == {j \in i..Len(s) : Ch(s, j) \notin chars}
    IN  IF stop = {} THEN Len(s) + 1 ELSE SetMin(stop)

\* whether s[i..i+n-1] are n digits
DigitsAt(s, i, n) ==
    /\ i >= 1
    /\ i + n - 1 <= Len(s)
    /\ \A j \in i..(i + n - 1) : Ch(s, j) \in DigitChars

RECURSIVE Pad(_, _)
\* "%0<w>d" % n
Pad(n, w) ==
    IF w = 0 THEN ""
    ELSE Pad(n \div 10, w - 1) \o DigitChar(n % 10)

-----------------------------------------------------------------------------
(* The pieces of the code's regular expressions. Each takes the index i    *)
(* where it is to match (0: the pieces before it failed) and gives the     *)
(* index after its match, 0 when it fails. In every pattern of the code    *)
(* the piece that follows a greedy run cannot match a character of the     *)
(* run, so the greedy match is the only one and no backtracking is lost.   *)

\* \d{1,2}
ReDigits12(s, i) ==
    IF i = 0 THEN 0
    ELSE IF DigitsAt(s, i, 2) THEN i + 2
    ELSE IF DigitsAt(s, i, 1) THEN i + 1
    ELSE 0

\* \d{n}
ReDigitsN(s, i, n) == IF i # 0 /\ DigitsAt(s, i, n) THEN i + n ELSE 0

\* the literal character c
ReChar(s, i, c) == IF i # 0 /\ Ch(s, i) = c THEN i + 1 ELSE 0

\* c?
ReOptChar(s, i, c) == IF i # 0 /\ Ch(s, i) = c THEN i + 1 ELSE i

\* [chars]*
ReMany0(s, i, chars) == IF i = 0 THEN 0 ELSE SpanEnd(s, i, chars)

\* [chars]+
ReMany1(s, i, chars) == IF i # 0 /\ Ch(s, i) \in chars THEN SpanEnd(s, i, chars) ELSE 0

\* $
ReEnd(s, i) == IF i = Len(s) + 1 THEN i ELSE 0

\* pattern.search(s).group(0): the leftmost match of a pattern that matches no
\* empty text, "" when there is none; ends[i] is the index after the match at
\* index i, 0 when the pattern does not match there
MatchFrom(s, ends, at) ==
    IF at = {} THEN "" ELSE SubSeq(s, SetMin(at), ends[SetMin(at)] - 1)

FirstMatch(s, ends) == MatchFrom(s, ends, {i \in 1..Len(s) : ends[i] # 0})

-----------------------------------------------------------------------------
(* The date normaliser, scraper.py:65-242                                  *)

\* scraper.py:65-97, without the two umlaut spellings
MONTH_MAP ==
    [n \in {"jan", "january", "feb", "february", "mar", "maer", "maerz", "march",
            "apr", "april", "may", "mai", "jun", "june", "jul", "july", "aug",
            "august", "sep", "sept", "september", "oct", "okt", "october", "nov",
            "november", "dec", "dez", "december"} |->
        CASE n \in {"jan", "january"} -> 1
          [] n \in {"feb", "february"} -> 2
          [] n \in {"mar", "maer", "maerz", "march"} -> 3
          [] n \in {"apr", "april"} -> 4
          [] n \in {"may", "mai"} -> 5
          [] n \in {"jun", "june"} -> 6
          [] n \in {"jul", "july"} -> 7
          [] n \in {"aug", "august"} -> 8
          [] n \in {"sep", "sept", "september"} -> 9
          [] n \in {"oct", "okt", "october"} -> 10
          [] n \in {"nov", "november"} -> 11
          [] n \in {"dec", "dez", "december"} -> 12]

\* scraper.py:99-128, in the order of the alternation
WEEKDAY_PREFIXES ==
    <<"montag", "dienstag", "mittwoch", "donnerstag", "freitag", "samstag",
      "sonntag", "monday", "tuesday", "wednesday", "thursday", "friday",
      "saturday", "sunday", "mo.", "di.", "mi.", "do.", "fr.", "sa.", "so.",
      "mon.", "tue.", "wed.", "thu.", "fri.", "sat.", "sun.">>

\* One alternative of WEEKDAY_PREFIX_RE at the start of s. The tokens are joined
\* into the pattern unescaped, so a "." in a token is the regex wildcard (any
\* character but a newline); re.IGNORECASE folds the letters.
TokenMatches(s, tok) ==
    /\ Len(s) >= Len(tok)
    /\ \A i \in 1..Len(tok) :
          IF Ch(tok, i) = "." THEN Ch(s, i) # "\n"
          ELSE LowerCh(Ch(s, i)) = Ch(tok, i)

\* the alternatives of WEEKDAY_PREFIX_RE that match at the start of s
WeekdayHits(s) == {k \in 1..Len(WEEKDAY_PREFIXES) : TokenMatches(s, WEEKDAY_PREFIXES[k])}

\* the index after the first of the alternatives hits, 0 when there is none
TokenEnd(hits) == IF hits = {} THEN 0 ELSE Len(WEEKDAY_PREFIXES[SetMin(hits)]) + 1

\* scraper.py:130-133, WEEKDAY_PREFIX_RE.match(s): the index after the match, 0
\* when there is none. The tail \s*,?\s* matches anything, so the first
\* alternative that matches is the one taken.
WeekdayPrefixEnd(s) ==
    ReMany0(s, ReOptChar(s, ReMany0(s, TokenEnd(WeekdayHits(s)), SpaceChars), ","), SpaceChars)

\* WEEKDAY_PREFIX_RE.sub("", s): the pattern is anchored, so at most the prefix goes
WeekdayPrefixSub(s) == SubSeq(s, SetMax({1, WeekdayPrefixEnd(s)}), Len(s))

\* whether \bUhr\b (re.IGNORECASE) matches at index i of s
UhrAt(s, i) ==
    /\ i + 2 <= Len(s)
    /\ Lower(SubSeq(s, i, i + 2)) = "uhr"
    /\ Ch(s, i - 1) \notin WordChars
    /\ Ch(s, i + 3) \notin WordChars

RECURSIVE DropUhrFrom(_, _)
DropUhrFrom(s, i) ==
    IF i > Len(s) THEN ""
    ELSE IF UhrAt(s, i) THEN DropUhrFrom(s, i + 3)
    ELSE Ch(s, i) \o DropUhrFrom(s, i + 1)

\* re.sub(r"\bUhr\b", "", s, flags=re.IGNORECASE)
RemoveUhr(s) == DropUhrFrom(s, 1)

\* [A-Za-z]+\.?\s+\d{4}, the tail of the first two candidate patterns
ReMonthYear(s, i) ==
    ReDigitsN(s, ReMany1(s, ReOptChar(s, ReMany1(s, i, AlphaChars), "."), SpaceChars), 4)

\* DATE_CANDIDATE_PATTERNS[0] at index i: \d{1,2}\.\s*[A-Za-z]+\.?\s+\d{4}
CandidateDotMonth(s, i) ==
    ReMonthYear(s, ReMany0(s, ReChar(s, ReDigits12(s, i), "."), SpaceChars))

\* DATE_CANDIDATE_PATTERNS[1] at index i: \d{1,2}\s+[A-Za-z]+\.?\s+\d{4}
CandidateDayMonth(s, i) == ReMonthYear(s, ReMany1(s, ReDigits12(s, i), SpaceChars))

\* DATE_CANDIDATE_PATTERNS[2] at index i: \d{1,2}\.\d{1,2}\.\d{4}
CandidateNumeric(s, i) ==
    ReDigitsN(s, ReChar(s, ReDigits12(s, ReChar(s, ReDigits12(s, i), ".")), "."), 4)

\* DATE_CANDIDATE_PATTERNS[3] at index i: \d{4}-\d{2}-\d{2}
CandidateIso(s, i) ==
    ReDigitsN(s, ReChar(s, ReDigitsN(s, ReChar(s, ReDigitsN(s, i, 4), "-"), 2), "-"), 2)

\* scraper.py:159-172
_extract_date_candidate(date_str_) ==
    FirstNonEmpty(<<
        FirstMatch(date_str_, [i \in 1..Len(date_str_) |-> CandidateDotMonth(date_str_, i)]),
        FirstMatch(date_str_, [i \in 1..Len(date_str_) |-> CandidateDayMonth(date_str_, i)]),
        FirstMatch(date_str_, [i \in 1..Len(date_str_) |-> CandidateNumeric(date_str_, i)]),
        FirstMatch(date_str_, [i \in 1..Len(date_str_) |-> CandidateIso(date_str_, i)]),
        date_str_>>)

\* what parse_date gives back: a date, or the ValueError it raised
DateOk(y, m, d) == [ok |-> TRUE, err |-> "", y |-> y, m |-> m, d |-> d]

DateErr(e) == [ok |-> FALSE, err |-> e, y |-> 0, m |-> 0, d |-> 0]

IsLeap(y) == (y % 4 = 0 /\ y % 100 # 0) \/ y % 400 = 0

DaysInMonth(y, m) ==
    IF m = 2 THEN (IF IsLeap(y) THEN 29 ELSE 28)
    ELSE IF m \in {4, 6, 9, 11} THEN 30
    ELSE 31

\* datetime(year, month, day).date(): ValueError outside the calendar
MakeDate(y, m, d) ==
    IF y < 1 \/ y > 9999 THEN DateErr("year is out of range")
    ELSE IF m < 1 \/ m > 12 THEN DateErr("month must be in 1..12")
    ELSE IF d < 1 \/ d > DaysInMonth(y, m) THEN DateErr("day is out of range for month")
    ELSE DateOk(y, m, d)

\* date.isoformat()
isoformat(r) == Pad(r.y, 4) \o "-" \o Pad(r.m, 2) \o "-" \o Pad(r.d, 2)

\* MONTH_MAP.get(month_name) of a matched group, 0 for None
MonthOf(group) == Get(MONTH_MAP, Lower(StripChars(group, {"."})), 0)

\* scraper.py:199-203 (and 210-214, 221-225): the date of a day, a month of
\* MONTH_MAP (0 for None) and a year
DateOfMonth(year, month, day) ==
    IF month = 0 THEN DateErr("Unknown month") ELSE MakeDate(year, month, day)

\* scraper.py:196-203 (and 207-214, 218-225) for the groups of a match, of which
\* the day-th is the day and the month-th the month name: <<>> when the pattern
\* did not match, else <<what the branch returns or raises>>
DateByMonthName(groups, day, month) ==
    IF groups = <<>> THEN <<>>
    ELSE <<DateOfMonth(ToInt(groups[3]), MonthOf(groups[month]), ToInt(groups[day]))>>

\* scraper.py:229-231 for the groups of a match
DateByNumbers(groups) ==
    IF groups = <<>> THEN <<>>
    ELSE <<MakeDate(ToInt(groups[3]), ToInt(groups[2]), ToInt(groups[1]))>>

\* [A-Za-z\.]
MonthChars == AlphaChars \cup {"."}

\* scraper.py:195  ^(\d{1,2})\s+([A-Za-z\.]+)\s+(\d{4})$ : the groups, <<>> for no match
MatchDayMonthYear(s) ==
    LET p1 == ReDigits12(s, 1)
        p2 == ReMany1(s, p1, SpaceChars)
        p3 == ReMany1(s, p2, MonthChars)
        p4 == ReMany1(s, p3, SpaceChars)
    IN  IF ReEnd(s, ReDigitsN(s, p4, 4)) # 0
        THEN <<SubSeq(s, 1, p1 - 1), SubSeq(s, p2, p3 - 1), SubSeq(s, p4, Len(s))>>
        ELSE <<>>

\* scraper.py:206  ^([A-Za-z\.]+)\s+(\d{1,2}),\s*(\d{4})$
MatchMonthDayYear(s) ==
    LET p1 == ReMany1(s, 1, MonthChars)
        p2 == ReMany1(s, p1, SpaceChars)
        p3 == ReDigits12(s, p2)
        p4 == ReMany0(s, ReChar(s, p3, ","), SpaceChars)
    IN  IF ReEnd(s, ReDigitsN(s, p4, 4)) # 0
        THEN <<SubSeq(s, 1, p1 - 1), SubSeq(s, p2, p3 - 1), SubSeq(s, p4, Len(s))>>
        ELSE <<>>

\* scraper.py:217  ^(\d{1,2})\.\s*([A-Za-z\.]+)\s+(\d{4})$
MatchDayDotMonthYear(s) ==
    LET p1 == ReDigits12(s, 1)
        p2 == ReMany0(s, ReChar(s, p1, "."), SpaceChars)
        p3 == ReMany1(s, p2, MonthChars)
        p4 == ReMany1(s, p3, SpaceChars)
    IN  IF ReEnd(s, ReDigitsN(s, p4, 4)) # 0
        THEN <<SubSeq(s, 1, p1 - 1), SubSeq(s, p2, p3 - 1), SubSeq(s, p4, Len(s))>>
        ELSE <<>>

\* scraper.py:228  ^(\d{1,2})\.(\d{1,2})\.(\d{4})$
MatchNumeric(s) ==
    LET p1 == ReDigits12(s, 1)
        p2 == ReChar(s, p1, ".")
        p3 == ReDigits12(s, p2)
        p4 == ReChar(s, p3, ".")
    IN  IF ReEnd(s, ReDigitsN(s, p4, 4)) # 0
        THEN <<SubSeq(s, 1, p1 - 1), SubSeq(s, p2, p3 - 1), SubSeq(s, p4, Len(s))>>
        ELSE <<>>

\* strptime's %m: 1[0-2]|0[1-9]|[1-9]
StrpMonth(t) ==
    \/ Len(t) = 2 /\ Ch(t, 1) = "1" /\ Ch(t, 2) \in {"0", "1", "2"}
    \/ Len(t) = 2 /\ Ch(t, 1) = "0" /\ Ch(t, 2) \in DigitChars \ {"0"}
    \/ Len(t) = 1 /\ t \in DigitChars \ {"0"}

\* strptime's %d: 3[01]|[12]\d|0[1-9]|[1-9]| [1-9]
StrpDay(t) ==
    \/ Len(t) = 2 /\ Ch(t, 1) = "3" /\ Ch(t, 2) \in {"0", "1"}
    \/ Len(t) = 2 /\ Ch(t, 1) \in {"1", "2"} /\ Ch(t, 2) \in DigitChars
    \/ Len(t) = 2 /\ Ch(t, 1) \in {"0", " "} /\ Ch(t, 2) \in DigitChars \ {"0"}
    \/ Len(t) = 1 /\ t \in DigitChars \ {"0"}

\* the texts of %Y, %m, %d checked and converted
StrptimeFields(yy, mm, dd) ==
    IF Len(yy) = 4 /\ DigitsAt(yy, 1, 4) /\ StrpMonth(mm) /\ StrpDay(dd)
    THEN MakeDate(ToInt(yy), ToInt(mm), ToInt(Strip(dd)))
    ELSE DateErr("does not match format")

\* s split at its first two occurrences of the separator c; <<>> if there are not two
SplitTwice(s, c) ==
    LET p == IndexOf(s, c)
        q == IndexOf(SubSeq(s, p + 1, Len(s)), c)
    IN  IF p = 0 \/ q = 0 THEN <<>>
        ELSE <<SubSeq(s, 1, p - 1), SubSeq(s, p + 1, p + q - 1), SubSeq(s, p + q + 1, Len(s))>>

\* scraper.py:238, datetime.strptime(s, "%Y-%m-%d").date()
\* scraper.py:236-240, one format of the loop over the parts of the text, of
\* which the y-th is the year and the d-th the day: <<the date>>, <<>> when
\* strptime raises and the loop goes on
Strptime(parts, y, d) ==
    IF parts # <<>> /\ StrptimeFields(parts[y], parts[2], parts[d]).ok
    THEN <<StrptimeFields(parts[y], parts[2], parts[d])>>
    ELSE <<>>

\* scraper.py:238, datetime.strptime(s, "%Y-%m-%d").date()
StrptimeIso(s) == Strptime(SplitTwice(s, "-"), 1, 3)

\* scraper.py:238, datetime.strptime(s, "%d.%m.%Y").date()
StrptimeGerman(s) == Strptime(SplitTwice(s, "."), 3, 1)

\* scraper.py:181-185: a leading fragment before a comma dropped when it is a
\* weekday and holds no year
DropWeekdayFragment(s) ==
    LET c == IndexOf(s, ",")
        head == SubSeq(s, 1, c - 1)
    IN  IF /\ c > 0
           /\ ~ \E i \in 1..Len(head) : DigitsAt(head, i, 4)
           /\ WeekdayPrefixEnd(Strip(head) \o " ") # 0
        THEN Strip(SubSeq(s, c + 1, Len(s)))
        ELSE s

\* scraper.py:177-185: the text cleaned of "Uhr" and of a leading weekday
DateTextCleaned(date_str_) ==
    DropWeekdayFragment(Strip(WeekdayPrefixSub(Strip(RemoveUhr(date_str_)))))

\* scraper.py:191-192: an ISO date with a time component cut to the date
TruncateIsoTime(s) ==
    IF ReChar(s, CandidateIso(s, 1), "T") # 0 THEN SubSeq(s, 1, 10) ELSE s

\* scraper.py:194-242: the first branch that is taken
ParseCandidate(s) ==
    FirstNonEmpty(<<DateByMonthName(MatchDayMonthYear(s), 1, 2),
                    DateByMonthName(MatchMonthDayYear(s), 2, 1),
                    DateByMonthName(MatchDayDotMonthYear(s), 1, 2),
                    DateByNumbers(MatchNumeric(s)),
                    StrptimeIso(s),
                    StrptimeGerman(s),
                    <<DateErr("Unrecognized date format")>>>>)[1]

\* scraper.py:175-242
parse_date(date_str_) ==
    ParseCandidate(TruncateIsoTime(_extract_date_candidate(DateTextCleaned(date_str_))))

-----------------------------------------------------------------------------
(* URLs and small helpers, scraper.py:138-157, 251-267                     *)

\* a dict with no key: {}
EmptyMap == [k \in {} |-> ""]

\* x or y, on strings
Or(x, y) == IF x # "" THEN x ELSE y

\* scheme://netloc of an absolute http(s) URL (urlparse, scraper.py:147-148)
Origin(url) ==
    LET a == IF StartsWith(url, "https://") THEN 9 ELSE 8
    IN  SubSeq(url, 1, SpanEnd(url, a, WordChars \cup {".", "-", ":"}) - 1)

\* urllib.parse.urljoin, for the references of the modelled pages: an absolute
\* URL, an origin-relative path, or a plain relative path (no "..", no query)
urljoin(base, href) ==
    IF href = "" THEN base
    ELSE IF Contains(href, "://") THEN href
    ELSE IF StartsWith(Lower(href), "mailto:") THEN href
    ELSE IF StartsWith(href, "/") THEN Origin(base) \o href
    ELSE SubSeq(base, 1, SetMax({i \in 1..Len(base) : Ch(base, i) = "/"})) \o href

\* scraper.py:138-157
resolve_url(page_url, href) ==
    LET h == Strip(href)
    IN  IF h = "" THEN page_url
        ELSE IF \E q \in {"http://", "https://", "mailto:", "javascript:"} :
                    StartsWith(Lower(h), q)
        THEN h
        ELSE IF StartsWith(h, "/") THEN Origin(page_url) \o h
        ELSE IF StartsWith(h, "abteilungen/") THEN Origin(page_url) \o "/" \o h
        ELSE urljoin(page_url, h)

\* scraper.py:251-257 (re.IGNORECASE on the label)
_clean_label_value(text, label) ==
    LET t == Strip(text)
        u == IF label # "" /\ Len(t) >= Len(label)
                /\ Lower(SubSeq(t, 1, Len(label))) = Lower(label)
             THEN SubSeq(t, SpanEnd(t, Len(label) + 1, SpaceChars), Len(t))
             ELSE t
    IN  Strip(u)

\* \d{1,2}:\d{2} at index i: the index after the match, 0 when there is none
TimeAt(s, i) == ReDigitsN(s, ReChar(s, ReDigits12(s, i), ":"), 2)

\* scraper.py:260-267 (the en dash of the strip set is outside the ASCII inputs)
_extract_time_fragment(text) ==
    IF text = "" THEN ""
    ELSE FirstNonEmpty(<<FirstMatch(text, [i \in 1..Len(text) |-> TimeAt(text, i)]),
                         StripChars(text, {" ", ",", "-"})>>)

RECURSIVE Join(_, _)
\* sep.join(parts)
Join(parts, sep) ==
    IF parts = <<>> THEN ""
    ELSE IF Len(parts) = 1 THEN parts[1]
    ELSE parts[1] \o sep \o Join(Tail(parts), sep)

RECURSIVE CollapseFrom(_, _)
CollapseFrom(s, i) ==
    IF i > Len(s) THEN ""
    ELSE IF Ch(s, i) \in SpaceChars THEN " " \o CollapseFrom(s, SpanEnd(s, i, SpaceChars))
    ELSE Ch(s, i) \o CollapseFrom(s, i + 1)

\* re.sub(r"\s+", " ", s)
CollapseSpaces(s) == CollapseFrom(s, 1)

\* an optional element or attribute: <<>> when absent, <<x>> when present
Has(opt) == opt # <<>>

-----------------------------------------------------------------------------
(* The detail-page extractor, scraper.py:270-344                           *)
(*                                                                         *)
(* A fetched page is [ok, container]: ok is FALSE when fetch raises, and   *)
(* container is <<>> or <<c>>, c holding the elements select_one finds in  *)
(* #calendar-event, each <<>> when absent: title, startdate, starttime,    *)
(* endtime, location (the element's text), organizer ([text, href]) and    *)
(* description ([text, html]).                                             *)

\* result[key] = value, when cond
Entry(cond, key, value) == IF cond THEN key :> value ELSE EmptyMap

\* Element.get_text(" ", strip=True) of an optional element, "" when absent
TextOf(opt) == IF Has(opt) THEN Strip(opt[1]) ELSE ""

\* the entries without the try: the date is stored whatever parse_date gave
DateEntriesUnchecked(raw_date_text, parsed) ==
    Entry(raw_date_text # "", "raw_date", raw_date_text)
    @@ Entry(raw_date_text # "", "date", isoformat(parsed))

\* scraper.py:298-304: what a start date text and its parse put into result
DateEntries(raw_date_text, parsed) ==
    Entry(raw_date_text # "", "raw_date", raw_date_text)
    @@ Entry(raw_date_text # "" /\ parsed.ok, "date", isoformat(parsed))

\* scraper.py:299-304: parse_date(_extract_date_candidate(raw_date_text)) in its try
DateEntriesOf(raw_date_text) ==
    DateEntries(raw_date_text, parse_date(_extract_date_candidate(raw_date_text)))

\* scraper.py:295-304 (an absent element leaves the text empty)
DetailDateFields(c) == DateEntriesOf(_clean_label_value(TextOf(c.startdate), "When:"))

\* scraper.py:312-317
TimeEntries(start_time, end_time) ==
    Entry(start_time # "", "start_time", start_time)
    @@ Entry(end_time # "", "end_time", end_time)
    @@ Entry(start_time # "" /\ end_time # "", "time_info", start_time \o "-" \o end_time)
    @@ Entry(start_time # "" /\ end_time = "", "time_info", start_time)

\* scraper.py:306-317
DetailTimeFields(c) ==
    TimeEntries(_extract_time_fragment(TextOf(c.starttime)),
                _extract_time_fragment(TextOf(c.endtime)))

\* scraper.py:291-293, 321-323, 327-333, 337-341: what the texts put into result;
\* href is <<>> or <<the organizer link's href>>
TextEntries(url, title_text, location_text, organizer_text, href, description_text, html) ==
    Entry(title_text # "", "title", title_text)
    @@ Entry(location_text # "", "location", location_text)
    @@ Entry(organizer_text # "", "speaker", organizer_text)
    @@ Entry(Has(href), "speaker_url", resolve_url(url, href[1]))
    @@ Entry(description_text # "", "description", description_text)
    @@ Entry(html # "", "description_html", html)

\* the attribute attr of an optional element, <<>> when the element is absent
Attr(opt, attr) == IF Has(opt) THEN <<opt[1][attr]>> ELSE <<>>

\* the optional attribute attr of an optional element
OptAttr(opt, attr) == IF Has(opt) THEN opt[1][attr] ELSE <<>>

\* scraper.py:289-293, 319-341
DetailTextFields(url, c) ==
    TextEntries(url,
                TextOf(c.title),
                _clean_label_value(TextOf(c.location), "Where:"),
                _clean_label_value(TextOf(Attr(c.organizer, "text")), "Speaker:"),
                OptAttr(c.organizer, "href"),
                TextOf(Attr(c.description, "text")),
                TextOf(Attr(c.description, "html")))

\* a cache that keeps only the mappings that hold a field: an empty one, which is
\* what a failed fetch and a page without container give, is returned and forgotten
StoredUnlessEmpty(url, cache, result) == [result |-> result, cache |-> IF result = EmptyMap THEN cache ELSE cache @@ (url :> result)]

\* scraper.py:343-344: DETAIL_CACHE[url] = result; return result
Stored(url, cache, result) == [result |-> result, cache |-> cache @@ (url :> result)]

\* scraper.py:270-344: [result, cache], the mapping returned and DETAIL_CACHE after
\* the call; fetched is what fetch(url) gives if it is called
scrape_wiwi_details(url, cache, fetched) ==
    IF url = "" THEN [result |-> EmptyMap, cache |-> cache]
    ELSE IF url \in DOMAIN cache THEN [result |-> cache[url], cache |-> cache]
    ELSE IF ~ fetched.ok \/ ~ Has(fetched.container) THEN Stored(url, cache, EmptyMap)
    ELSE Stored(url, cache, DetailTextFields(url, fetched.container[1])
                            @@ DetailDateFields(fetched.container[1])
                            @@ DetailTimeFields(fetched.container[1]))

\* scraper.py:271-280: the calls of fetch(url) one call of scrape_wiwi_details makes,
\* none for an empty url or a url the cache holds, else one, logged with what it gave
Fetches(url, cache, fetched) ==
    IF url = "" \/ url \in DOMAIN cache THEN <<>>
    ELSE <<[url |-> url, ok |-> fetched.ok, found |-> Has(fetched.container)]>>

-----------------------------------------------------------------------------
(* The detail pages of the modelled site                                   *)

WIWI == "https://www.old.wiwi.uni-frankfurt.de"

Container(title, startdate, starttime, endtime, location, organizer, description) ==
    [title |-> title, startdate |-> startdate, starttime |-> starttime,
     endtime |-> endtime, location |-> location, organizer |-> organizer,
     description |-> description]

\* every labelled field present
PageFull ==
    [ok |-> TRUE, container |-> <<Container(
        <<"Detail Title One">>, <<"When: 05.11.2025">>, <<"12:00 Uhr">>, <<"13:15">>,
        <<"Where: HoF E.22">>,
        <<[text |-> "Speaker: Prof. B", href |-> <<"https://example.org/b">>]>>,
        <<[text |-> "An abstract.", html |-> "<p>An abstract.</p>"]>>)>>]

\* a start date that does not parse, a start time alone, no title
PageBadDate ==
    [ok |-> TRUE, container |-> <<Container(
        <<>>, <<"When: to be announced">>, <<"ab 14:15 Uhr">>, <<>>, <<>>, <<>>, <<>>)>>]

\* elements present whose texts are empty once cleaned; an end time alone; an
\* organizer that is only a link
PageBlank ==
    [ok |-> TRUE, container |-> <<Container(
        <<"  ">>, <<"When: ">>, <<>>, <<"15:30">>, <<"Where:">>,
        <<[text |-> "Speaker:", href |-> <<"abteilungen/finance/team/c.html">>]>>,
        <<[text |-> " ", html |-> " "]>>)>>]

\* a page without #calendar-event
PageNoContainer == [ok |-> TRUE, container |-> <<>>]

\* fetch raises (network error or HTTP status)
PageUnreachable == [ok |-> FALSE, container |-> <<>>]

DETAIL_PAGES ==
    (WIWI \o "/abteilungen/finance/events/e1.html") :> PageFull
    @@ (WIWI \o "/abteilungen/finance/events/e2.html") :> PageBadDate
    @@ (WIWI \o "/abteilungen/finance/events/e3.html") :> PageNoContainer
    @@ (WIWI \o "/abteilungen/finance/events/e5.html") :> PageBlank

\* scraper.py:245-248, of a detail page: any other URL is unreachable
fetch(url) == IF url \in DOMAIN DETAIL_PAGES THEN DETAIL_PAGES[url] ELSE PageUnreachable

-----------------------------------------------------------------------------
(* The tabular extractor, scraper.py:347-432                               *)
(*                                                                         *)
(* A table row is the sequence of its td cells, each [class, text, link]:  *)
(* link is <<>> or <<[text, href]>> for the first a element of the cell,   *)
(* href <<>> when the a has no href attribute.                             *)

\* tr.find("td", class_=class) or fallback
FindTd(tds, class, fallback) ==
    LET marked == {i \in 1..Len(tds) : tds[i].class = class}
    IN  IF marked # {} THEN <<tds[SetMin(marked)]>> ELSE fallback

\* the record built from the row and the config alone, the detail page supplying
\* only what the row has no value for
RowFirstEvent(cfg, title, speaker, speaker_url, d, date_text, details_url, detail_data) ==
    [seminar_id |-> cfg.id,
     seminar_name |-> cfg.name,
     seminar_page |-> cfg.page,
     title |-> title,
     speaker |-> Or(speaker, Get(detail_data, "speaker", "")),
     speaker_url |-> Or(speaker_url, Get(detail_data, "speaker_url", "")),
     date |-> isoformat(d),
     raw_date |-> date_text,
     time_info |-> Or(cfg.time_info, Get(detail_data, "time_info", "")),
     start_time |-> Get(detail_data, "start_time", ""),
     end_time |-> Get(detail_data, "end_time", ""),
     location |-> Or(cfg.location, Get(detail_data, "location", "")),
     description |-> Get(detail_data, "description", ""),
     description_html |-> Get(detail_data, "description_html", ""),
     details_url |-> Or(details_url, cfg.page),
     source |-> "Goethe University Frankfurt"]

\* scraper.py:411-430
TableEvent(cfg, title, speaker, speaker_url, d, date_text, details_url, detail_data) ==
    [seminar_id |-> cfg.id,
     seminar_name |-> cfg.name,
     seminar_page |-> cfg.page,
     title |-> Get(detail_data, "title", title),
     speaker |-> Get(detail_data, "speaker", speaker),
     speaker_url |-> Get(detail_data, "speaker_url", speaker_url),
     date |-> Get(detail_data, "date", isoformat(d)),
     raw_date |-> Get(detail_data, "raw_date", date_text),
     time_info |-> Or(Get(detail_data, "time_info", ""), cfg.time_info),
     start_time |-> Get(detail_data, "start_time", ""),
     end_time |-> Get(detail_data, "end_time", ""),
     location |-> Or(Get(detail_data, "location", ""), cfg.location),
     description |-> Get(detail_data, "description", ""),
     description_html |-> Get(detail_data, "description_html", ""),
     details_url |-> Or(details_url, cfg.page),
     source |-> "Goethe University Frankfurt"]

\* scraper.py:363-364
RowDateText(tds) == TextOf(Attr(FindTd(tds, "dtstart-container", <<tds[1]>>), "text"))

\* scraper.py:376
RowSpeaker(speaker_td) == TextOf(Attr(speaker_td, "text"))

\* the href of the first a element of an optional cell, <<>> when there is none
LinkHref(td) == OptAttr(OptAttr(td, "link"), "href")

\* scraper.py:377-381: find("a", href=True) looks at the attribute, not its value
SpeakerUrl(page_url, href) == IF Has(href) THEN resolve_url(page_url, href[1]) ELSE ""

\* scraper.py:386-393: if href
DetailsUrl(page_url, href) ==
    IF Has(href) /\ href # <<"">> THEN resolve_url(page_url, href[1]) ELSE ""

\* scraper.py:385-395: the text of the cell's link, of the cell without one
RowTitle(summary_td) ==
    TextOf(FirstNonEmpty(<<Attr(OptAttr(summary_td, "link"), "text"), Attr(summary_td, "text")>>))

\* the row gives no record: continue
Skip(cache) == [events |-> <<>>, cache |-> cache]

\* scraper.py:403-430: the record appended, det being what scrape_wiwi_details gave
RowAppended(cfg, title, speaker, speaker_url, d, date_text, details_url, det) ==
    [events |-> <<TableEvent(cfg, title, speaker, speaker_url, d, date_text, details_url,
                             det.result)>>,
     cache |-> det.cache]

\* scraper.py:365-401: the guards of the iteration and the detail page
RowChecked(cfg, cache, date_text, d, speaker, speaker_url, title, details_url) ==
    IF date_text = "" \/ ~ d.ok \/ title = "" THEN Skip(cache)
    ELSE RowAppended(cfg, title, speaker, speaker_url, d, date_text, details_url,
                     scrape_wiwi_details(details_url, cache, fetch(details_url)))

\* scraper.py:364-395: the texts read from the cells
RowCells(cfg, cache, date_text, speaker_td, summary_td) ==
    RowChecked(cfg, cache, date_text, parse_date(date_text), RowSpeaker(speaker_td),
               SpeakerUrl(cfg.page, LinkHref(speaker_td)), RowTitle(summary_td),
               DetailsUrl(cfg.page, LinkHref(summary_td)))

\* the i-th element of a list if it has one: xs[i-1] if len(xs) > i-1 else None
ItemAt(xs, i) == IF Len(xs) >= i THEN <<xs[i]>> ELSE <<>>

\* scraper.py:357-430, one iteration of the loop over the rows: [events, cache],
\* the records appended (none or one) and DETAIL_CACHE after it
TableRow(cfg, tds, cache) ==
    IF tds = <<>> THEN Skip(cache)
    ELSE RowCells(cfg, cache, RowDateText(tds), FindTd(tds, "speaker", ItemAt(tds, 2)),
                  FindTd(tds, "summary", ItemAt(tds, 3)))

\* the records of the first rows put before what the rows after them gave
Prepend(evs, rest) == [events |-> evs \o rest.events, cache |-> rest.cache]

RECURSIVE TableRows(_, _, _)
\* a loop that a skipped row ends: break in place of continue
RowsUntilSkip(cfg, rest, first) ==
    IF first.events = <<>> THEN first
    ELSE Prepend(first.events, TableRows(cfg, rest, first.cache))

\* the rows after the first, run from the cache the first left
RowsAfter(cfg, rest, first) == Prepend(first.events, TableRows(cfg, rest, first.cache))

\* scraper.py:357: for tr in table.select("tbody tr")
TableRows(cfg, rows, cache) ==
    IF rows = <<>> THEN Skip(cache)
    ELSE RowsAfter(cfg, Tail(rows), TableRow(cfg, Head(rows), cache))

\* scraper.py:347-432: [raised, events, cache]. fetched is what fetch(cfg["page"])
\* gives, [ok, table]: table is <<>> without table.data-table-event, else <<rows>>
scrape_wiwi_table(cfg, fetched, cache) ==
    IF ~ fetched.ok THEN [raised |-> TRUE] @@ Skip(cache)
    ELSE IF ~ Has(fetched.table) THEN [raised |-> FALSE] @@ Skip(cache)
    ELSE [raised |-> FALSE] @@ TableRows(cfg, fetched.table[1], cache)

-----------------------------------------------------------------------------
(* The narrative extractor, scraper.py:435-564                             *)
(*                                                                         *)
(* A frame (div.frame-type-text) is [h2, paragraphs, link]: h2 is <<>> or  *)
(* <<the heading's text>>, paragraphs the p elements, each the sequence of *)
(* its children [tag, text] (tag "" for a NavigableString), and link <<>>  *)
(* or <<href>> for the first a element with an href in the frame.          *)

IMFS_URL == "https://www.imfs-frankfurt.de/veranstaltungen/alle-kommenden-veranstaltungen"

\* child.strip() of a NavigableString, child.get_text(" ", strip=True) of a Tag
NodeText(child) == Strip(child.text)

\* the texts of the children that have one
RECURSIVE NonEmptyTexts(_)
NonEmptyTexts(children) ==
    IF children = <<>> THEN <<>>
    ELSE (IF NodeText(Head(children)) # "" THEN <<NodeText(Head(children))>> ELSE <<>>)
         \o NonEmptyTexts(Tail(children))

\* the first index whose child has one of the tags, Len + 1 when none has
FirstTag(children, tags) ==
    LET at == {i \in 1..Len(children) : Lower(children[i].tag) \in tags}
    IN  IF at = {} THEN Len(children) + 1 ELSE SetMin(at)

RECURSIVE StripEach(_, _)
StripEach(parts, chars) ==
    IF parts = <<>> THEN <<>>
    ELSE <<StripChars(Head(parts), chars)>> \o StripEach(Tail(parts), chars)

\* scraper.py:460-471
FrameSpeaker(first_paragraph) ==
    LET before == SubSeq(first_paragraph, 1, FirstTag(first_paragraph, {"br", "i"}) - 1)
        speaker_parts == StripEach(NonEmptyTexts(before), {" ", ","})
    IN  IF speaker_parts = <<>> THEN ""
        ELSE StripChars(CollapseSpaces(Join(speaker_parts, " ")), {" ", ","})

IsBr(child) == Lower(child.tag) = "br"

\* scraper.py:473-493 (the curly quotes of the strip set are outside the ASCII inputs)
FrameTitle(first_paragraph) ==
    LET i == FirstTag(first_paragraph, {"i"})
        b == FirstTag(first_paragraph, {"br"})
        after_break == NonEmptyTexts(SelectSeq(
            SubSeq(first_paragraph, b + 1, Len(first_paragraph)), LAMBDA c : ~ IsBr(c)))
    IN  IF i <= Len(first_paragraph)
        THEN StripChars(NodeText(first_paragraph[i]), {"\""})
        ELSE IF after_break # <<>> THEN StripChars(after_break[1], {"\""})
        ELSE ""

IsStrong(child) == child.tag = "strong"

\* scraper.py:529-534
SeminarDisplay(seminar_name_raw) ==
    IF Contains(Lower(seminar_name_raw), "working lunch") THEN "IMFS Working Lunch"
    ELSE IF Contains(Lower(seminar_name_raw), "policy lecture") THEN "IMFS Policy Lecture"
    ELSE seminar_name_raw

\* scraper.py:541-546
FrameDetailsUrl(frame) ==
    IF Has(frame.link) /\ ~ StartsWith(Lower(frame.link[1]), "mailto:")
    THEN urljoin(IMFS_URL, frame.link[1])
    ELSE IMFS_URL

\* scraper.py:503: second_paragraph.find_all("strong"), of an optional paragraph
FrameStrongs(second_paragraph) ==
    IF Has(second_paragraph) THEN SelectSeq(second_paragraph[1], IsStrong) ELSE <<>>

\* scraper.py:516-522: the strings left once the strong elements are extracted
FrameLocationParts(second_paragraph) ==
    IF Has(second_paragraph)
    THEN NonEmptyTexts(SelectSeq(second_paragraph[1], LAMBDA c : ~ IsStrong(c)))
    ELSE <<>>

\* scraper.py:507-511: the try, <<>> when parse_date raised
FrameParsed(raw_date_text, parsed) ==
    IF parsed.ok THEN <<[date_iso |-> isoformat(parsed), raw_date |-> raw_date_text]>> ELSE <<>>

\* scraper.py:504-511: <<[date_iso, raw_date]>>, <<>> while date_iso is ""
FrameDate(strongs) ==
    IF strongs = <<>> THEN <<>>
    ELSE FrameParsed(NodeText(strongs[1]),
                     parse_date(_extract_date_candidate(NodeText(strongs[1]))))

\* scraper.py:513-514
FrameTime(strongs) ==
    IF Len(strongs) > 1 THEN Strip(RemoveUhr(NodeText(strongs[2]))) ELSE ""

\* the record without the fallback of scraper.py:538-539
FrameRecordNoFallback(frame, seminar_display, title, speaker, dated, time_info, parts) ==
    IF dated = <<>> THEN <<>>
    ELSE <<[seminar_id |-> "imfs",
            seminar_name |-> seminar_display,
            seminar_page |-> IMFS_URL,
            title |-> title,
            speaker |-> speaker,
            date |-> dated[1].date_iso,
            raw_date |-> dated[1].raw_date,
            time_info |-> time_info,
            location |-> Join(parts, ", "),
            details_url |-> FrameDetailsUrl(frame),
            source |-> "IMFS Frankfurt"]>>

\* scraper.py:524-562
FrameRecord(frame, seminar_display, title, speaker, dated, time_info, location_parts) ==
    IF dated = <<>> THEN <<>>
    ELSE <<[seminar_id |-> "imfs",
            seminar_name |-> seminar_display,
            seminar_page |-> IMFS_URL,
            title |-> Or(title, seminar_display),
            speaker |-> speaker,
            date |-> dated[1].date_iso,
            raw_date |-> dated[1].raw_date,
            time_info |-> time_info,
            location |-> Join(location_parts, ", "),
            details_url |-> FrameDetailsUrl(frame),
            source |-> "IMFS Frankfurt"]>>

\* scraper.py:458-562, for a frame with a heading text and a first paragraph
FrameParagraphs(frame, seminar_name_raw, first_paragraph, second_paragraph) ==
    FrameRecord(frame, SeminarDisplay(seminar_name_raw), FrameTitle(first_paragraph),
                FrameSpeaker(first_paragraph), FrameDate(FrameStrongs(second_paragraph)),
                FrameTime(FrameStrongs(second_paragraph)),
                FrameLocationParts(second_paragraph))

\* scraper.py:445-562, one iteration of the loop over the frames: the records
\* appended (none or one)
ImfsFrame(frame) ==
    IF ~ Has(frame.h2) \/ TextOf(frame.h2) = "" \/ frame.paragraphs = <<>> THEN <<>>
    ELSE FrameParagraphs(frame, TextOf(frame.h2), frame.paragraphs[1],
                         ItemAt(frame.paragraphs, 2))

RECURSIVE ImfsFrames(_)
\* scraper.py:445: for frame in content.select("div.frame-type-text")
ImfsFrames(frames) ==
    IF frames = <<>> THEN <<>>
    ELSE ImfsFrame(Head(frames)) \o ImfsFrames(Tail(frames))

\* scraper.py:435-564: [raised, events]. fetched is what fetch(IMFS_URL) gives,
\* [ok, content]: content is <<>> without .page-content, else <<frames>>
scrape_imfs(fetched) ==
    IF ~ fetched.ok THEN [raised |-> TRUE, events |-> <<>>]
    ELSE IF ~ Has(fetched.content) THEN [raised |-> FALSE, events |-> <<>>]
    ELSE [raised |-> FALSE, events |-> ImfsFrames(fetched.content[1])]

-----------------------------------------------------------------------------
(* The aggregator, scraper.py:13-63, 567-591                               *)

Seminar(id, name, path, location, time_info) ==
    [id |-> id, name |-> name, page |-> WIWI \o "/abteilungen/" \o path,
     location |-> location, time_info |-> time_info]

\* scraper.py:13-63 (the en dashes of time_info written "-")
ALL_SEMINARS ==
    <<Seminar("finance_seminar", "Finance Seminar Series",
              "finance/seminar/finance-seminar-series/seminar-calendar.html",
              "HoF E.01 / Deutsche Bank room", "Tuesdays 12:00-13:15"),
      Seminar("finance_brownbag", "Finance Brown Bag",
              "finance/seminar/brown-bag/finance-brown-bag.html",
              "HoF E.20 / DZ Bank room", "Wednesdays 14:00-15:00"),
      Seminar("mm_amos", "AMOS Seminar (Management & Microeconomics)",
              "mm/forschung/forschungskolloquien/amos.html",
              "RuW 4.201", "Usually Wednesdays 14:15"),
      Seminar("mm_brownbag", "Management & Microeconomics Brown Bag",
              "mm/forschung/forschungskolloquien/brown-bag-seminar.html",
              "RuW 4.201", "Thursdays 12:30-13:30"),
      Seminar("qep", "Quantitative Economic Policy Seminar",
              "eq/seminars/quantitative-economic-policy-seminar.html", "RuW 4.202", ""),
      Seminar("macro_seminar", "Macro Seminar",
              "money-and-macroeconomics/macro-seminar.html",
              "HoF E.01 / Deutsche Bank room", "Tuesdays 14:15-15:30"),
      Seminar("macro_brownbag", "Money & Macro Brown Bag",
              "money-and-macroeconomics/brown-bag-seminar.html", "", "")>>

\* how many of the configured tables a modelled run scrapes
NumSeminars == 2

SEMINARS == SubSeq(ALL_SEMINARS, 1, NumSeminars)

\* ord(c), for the characters of an ISO date
Ord(c) == IF c = "-" THEN 45 ELSE 48 + DigitVal(c)

\* a <= b on str: by the first character that differs, a prefix first
StrLeq(a, b) ==
    LET diff == {i \in 1..Len(a) : i > Len(b) \/ Ch(a, i) # Ch(b, i)}
    IN  IF diff = {} THEN TRUE
        ELSE SetMin(diff) <= Len(b) /\ Ord(Ch(a, SetMin(diff))) < Ord(Ch(b, SetMin(diff)))

\* scraper.py:581
EventKey(ev) == <<ev.seminar_id, ev.title, ev.date>>

\* a list back to front
Reverse(xs) == [i \in 1..Len(xs) |-> xs[Len(xs) + 1 - i]]

RECURSIVE UniqueFrom(_, _)
\* scraper.py:580-585: the loop, from a given set seen
UniqueFrom(evs, seen) ==
    IF evs = <<>> THEN <<>>
    ELSE IF EventKey(Head(evs)) \in seen THEN UniqueFrom(Tail(evs), seen)
    ELSE <<Head(evs)>> \o UniqueFrom(Tail(evs), seen \cup {EventKey(Head(evs))})

\* the loop run from the end of the list: the last record of each key is kept
UniqueLastSeen(evs) == Reverse(UniqueFrom(Reverse(evs), {}))

\* scraper.py:578-585
unique_events(evs) == UniqueFrom(evs, {})

\* ev put before the first element of a sorted list whose date is >= its own: a
\* sort that is not stable
InsertBeforeEqual(sorted, ev) ==
    LET p == SetMax({0} \cup {i \in 1..Len(sorted) : ~ StrLeq(ev.date, sorted[i].date)})
    IN  SubSeq(sorted, 1, p) \o <<ev>> \o SubSeq(sorted, p + 1, Len(sorted))

\* ev put behind the last element of a sorted list whose date is <= its own
InsertByDate(sorted, ev) ==
    LET p == SetMax({0} \cup {i \in 1..Len(sorted) : StrLeq(sorted[i].date, ev.date)})
    IN  SubSeq(sorted, 1, p) \o <<ev>> \o SubSeq(sorted, p + 1, Len(sorted))

RECURSIVE SortByDate(_)
\* scraper.py:588: list.sort(key=lambda e: e["date"]), a stable sort
SortByDate(evs) ==
    IF evs = <<>> THEN <<>>
    ELSE InsertByDate(SortByDate(SubSeq(evs, 1, Len(evs) - 1)), evs[Len(evs)])

-----------------------------------------------------------------------------
(* The pages a run may be given                                            *)

Td(class, text, link) == [class |-> class, text |-> text, link |-> link]

A(text, href) == <<[text |-> text, href |-> href]>>

E1 == <<"abteilungen/finance/events/e1.html">>

\* the spec's scenario: a linked title without a detail page
RowTalkX ==
    <<Td("dtstart-container", "04.11.2025", <<>>), Td("speaker", "Dr. A", <<>>),
      Td("summary", "Talk X", A("Talk X", <<>>))>>

\* the same title and date as RowTalkX, another speaker
RowTalkXAgain ==
    <<Td("dtstart-container", "04.11.2025", <<>>), Td("speaker", "Dr. B", <<>>),
      Td("summary", "Talk X", A("Talk X", <<>>))>>

\* an earlier date, positional cells, a plain-text title
RowEarlier ==
    <<Td("", " Mo, 3. November 2025 ", <<>>),
      Td("", "Prof. C", A("Prof. C", <<"https://example.org/c">>)),
      Td("", " Talk Y ", <<>>)>>

\* a detail page with every field, the marked cells in another order
RowFull ==
    <<Td("summary", "Talk One", A("Talk One", E1)),
      Td("speaker", "Dr. D", A("Dr. D", <<"/abteilungen/finance/team/d.html">>)),
      Td("dtstart-container", "Di, 04.11.2025 12:00 Uhr", <<>>)>>

\* a detail page whose start date does not parse
RowBadDetailDate ==
    <<Td("", "27.11.2025", <<>>), Td("", "Dr. E", <<>>),
      Td("", "Talk Two", A("Talk Two", <<"/abteilungen/finance/events/e2.html">>))>>

\* a detail page without the container
RowNoContainer ==
    <<Td("", "2025-12-02", <<>>), Td("", "Dr. F", <<>>),
      Td("", "Talk Three", A("Talk Three", <<WIWI \o "/abteilungen/finance/events/e3.html">>))>>

\* a detail page that cannot be fetched
RowUnreachable ==
    <<Td("", "09 Dec 2025", <<>>), Td("", "", <<>>),
      Td("", "Talk Four", A("Talk Four", <<"e4.html">>))>>

\* a detail page whose elements are blank
RowBlankDetail ==
    <<Td("", "29.02.2024", <<>>), Td("", "Dr. G", <<>>),
      Td("", "Talk Five", A("Talk Five", <<"abteilungen/finance/events/e5.html">>))>>

RowEmptyDate ==
    <<Td("", "  ", <<>>), Td("", "Dr. H", <<>>), Td("", "Talk Six", A("Talk Six", E1))>>

RowUnparseable ==
    <<Td("", "tba", <<>>), Td("", "Dr. H", <<>>), Td("", "Talk Seven", A("Talk Seven", E1))>>

\* not a calendar date, although its detail page has one
RowNoSuchDay ==
    <<Td("", "31.02.2025", <<>>), Td("", "Dr. H", <<>>), Td("", "Talk Eight", A("Talk Eight", E1))>>

RowUnknownMonth ==
    <<Td("", "4. Brumaire 2025", <<>>), Td("", "Dr. H", <<>>), Td("", "Talk Nine", <<>>)>>

\* a date but no title cell
RowNoTitle == <<Td("", "04.11.2025", <<>>), Td("", "Dr. I", <<>>)>>

\* a date and a link without text
RowBlankTitle ==
    <<Td("", "04.11.2025", <<>>), Td("", "Dr. I", <<>>), Td("", " ", A(" ", E1))>>

RowNoEvents == <<Td("", "Keine Ereignisse gefunden.", <<>>)>>

RowNoCells == <<>>

\* the rows that give a record
GoodRows ==
    {RowTalkX, RowEarlier, RowFull, RowBadDetailDate, RowNoContainer, RowUnreachable,
     RowBlankDetail}

\* the rows the loop skips
SkippedRows ==
    {RowEmptyDate, RowNoSuchDay, RowUnknownMonth, RowNoTitle, RowBlankTitle, RowNoEvents,
     RowNoCells}

\* the rows given to the table whose config has no location and no time
FewRows == {RowTalkX, RowFull, RowNoEvents}

Node(tag, text) == [tag |-> tag, text |-> text]

Frame(h2, paragraphs, link) == [h2 |-> h2, paragraphs |-> paragraphs, link |-> link]

\* speaker before an italic title; date, time and place in the second paragraph
FrameLunch ==
    Frame(<<"IMFS Working Lunch">>,
          <<<<Node("", "Prof. K, "), Node("i", "\"Monetary Policy\"")>>,
            <<Node("strong", "27. November 2025"), Node("", ", "),
              Node("strong", "12:30 Uhr"), Node("br", ""), Node("", "House of Finance"),
              Node("", " Room E.01 ")>>>>,
          <<"/veranstaltungen/detail/lunch">>)

\* the spec's scenario: the heading names the speaker; one paragraph
FrameLectureWith ==
    Frame(<<"IMFS Policy Lecture with Jane Doe">>,
          <<<<Node("strong", "27. November 2025"), Node("strong", "14:00 Uhr"),
              Node("", "Room A")>>>>,
          <<>>)

\* the same heading and paragraph behind an empty first paragraph
FrameLectureWithEmptyFirst ==
    Frame(<<"IMFS Policy Lecture with Jane Doe">>,
          <<<<>>,
            <<Node("strong", "27. November 2025"), Node("strong", "14:00 Uhr"),
              Node("", "Room A")>>>>,
          <<>>)

\* a German connective, the title behind a line break, an earlier date
FrameVortragMit ==
    Frame(<<" Vortrag mit Max Muster ">>,
          <<<<Node("br", ""), Node("", " Geldpolitik heute "), Node("", "zweite Zeile")>>,
            <<Node("strong", "Mittwoch, 1. Oktober 2025")>>>>,
          <<"mailto:events@imfs-frankfurt.de">>)

\* an italic title that is blank between its quotes
FrameBlankTitle ==
    Frame(<<"Sommerfest">>,
          <<<<Node("", "Dr. L"), Node("i", "\"\"")>>,
            <<Node("strong", "2025-11-04"), Node("", "Campus Westend")>>>>,
          <<"https://example.org/fest">>)

FrameBadDate ==
    Frame(<<"Conference">>,
          <<<<Node("", "Dr. M")>>, <<Node("strong", "Termin folgt"), Node("", "Room B")>>>>,
          <<>>)

FrameNoStrong ==
    Frame(<<"Conference">>, <<<<Node("", "Dr. M")>>, <<Node("", "27.11.2025")>>>>, <<>>)

FrameNoHeading == Frame(<<>>, <<<<Node("", "Dr. N")>>, <<Node("strong", "27.11.2025")>>>>, <<>>)

FrameBlankHeading == Frame(<<"  ">>, <<<<Node("", "Dr. N")>>, <<Node("strong", "27.11.2025")>>>>, <<>>)

FrameNoParagraphs == Frame(<<"Workshop">>, <<>>, <<>>)

FrameInputs ==
    {FrameLunch, FrameLectureWith, FrameLectureWithEmptyFirst, FrameVortragMit,
     FrameBlankTitle, FrameBadDate, FrameNoStrong, FrameNoHeading, FrameBlankHeading,
     FrameNoParagraphs}

\* the longest table, and the longest narrative page, of a modelled run
MaxRows == 2

MaxFrames == 2

SeqsUpTo(S, n) == UNION {[1..k -> S] : k \in 0..n}

\* what fetch gives for a table page: it raises, the page lacks the table, or the
\* table has up to MaxRows of the given rows
TablePages(rows) ==
    {[ok |-> FALSE, table |-> <<>>], [ok |-> TRUE, table |-> <<>>]}
    \cup {[ok |-> TRUE, table |-> <<trs>>] : trs \in SeqsUpTo(rows, MaxRows)}

\* what fetch gives for the narrative page
ImfsPages(frames) ==
    {[ok |-> FALSE, content |-> <<>>], [ok |-> TRUE, content |-> <<>>]}
    \cup {[ok |-> TRUE, content |-> <<fs>>] : fs \in SeqsUpTo(frames, MaxFrames)}

\* what fetch may give for each table page in a run of the aggregator
MainTablePages ==
    {[ok |-> FALSE, table |-> <<>>],
     [ok |-> TRUE, table |-> <<>>],
     [ok |-> TRUE, table |-> <<<<RowTalkX>>>>],
     [ok |-> TRUE, table |-> <<<<RowTalkX, RowTalkXAgain>>>>],
     [ok |-> TRUE, table |-> <<<<RowFull, RowEarlier>>>>],
     [ok |-> TRUE, table |-> <<<<RowUnparseable, RowTalkXAgain>>>>]}

\* what fetch may give for the narrative page in a run of the aggregator
MainImfsPages ==
    {[ok |-> FALSE, content |-> <<>>],
     [ok |-> TRUE, content |-> <<>>],
     [ok |-> TRUE, content |-> <<<<FrameLunch>>>>],
     [ok |-> TRUE, content |-> <<<<FrameLunch, FrameVortragMit>>>>],
     [ok |-> TRUE, content |-> <<<<FrameBadDate, FrameLunch>>>>]}

\* the six date forms
DateForms ==
    {"27.11.2025", "27. November 2025", "Nov 18, 2025", "04 Nov 2025", "2025-11-04",
     "2025-11-04T12:30"}

\* a leading weekday token, with or without its comma
WeekdayNoise ==
    {"", "Donnerstag, ", "Tuesday, ", "Di, ", "Mi ", "Do. ", "Thu., ", "Sat. ", "Mon., ",
     "FRIDAY "}

\* trailing time-of-day text ending in "Uhr"
TrailingNoise == {"", " Uhr", " 12:30 Uhr", ", 14:00 Uhr", " um 9 Uhr"}

-----------------------------------------------------------------------------
(* The state machine                                                       *)

NoDate == DateErr("not called")

NoPage == [source |-> "", fetched |-> [ok |-> FALSE]]

NoLookup == [url |-> "", result |-> EmptyMap, repeat |-> FALSE]

\* scrape_wiwi_details has not been called on its own
NoLookups ==
    /\ lookup = NoLookup
    /\ first_lookup = EmptyMap
    /\ fetch_log = <<>>
    /\ lookups = 0

\* the variables no call has touched yet
Idle ==
    /\ date_parts = <<"", "", "">>
    /\ date_str = ""
    /\ date_result = NoDate
    /\ page = NoPage
    /\ events = <<>>
    /\ DETAIL_CACHE = EmptyMap
    /\ next_src = 1
    /\ all_events = <<>>
    /\ events_json = <<>>
    /\ fetch_failed = {}
    /\ scraped = {}
    /\ NoLookups

\* a run of main()
Init == pc = "tables" /\ Idle

\* scraper.py:571-572: what main does with r, the outcome of scrape_wiwi_table(cfg):
\* the exception leaves main, the list returned extends all_events
TableScraped(cfg, fetched, r) ==
    /\ page' = [source |-> cfg.id, fetched |-> fetched]
    /\ scraped' = scraped \cup {cfg.id}
    /\ events' = r.events
    /\ DETAIL_CACHE' = r.cache
    /\ IF r.raised
       THEN /\ pc' = "raised"
            /\ fetch_failed' = fetch_failed \cup {cfg.id}
            /\ UNCHANGED <<next_src, all_events>>
       ELSE /\ all_events' = all_events \o r.events
            /\ next_src' = next_src + 1
            /\ pc' = IF next_src = Len(SEMINARS) THEN "imfs" ELSE "tables"
            /\ UNCHANGED fetch_failed

\* scraper.py:571-572: one iteration, the table page being whatever fetch gives
MainScrapeTable ==
    /\ pc = "tables"
    /\ \E fetched \in MainTablePages :
          TableScraped(SEMINARS[next_src], fetched,
                       scrape_wiwi_table(SEMINARS[next_src], fetched, DETAIL_CACHE))
    /\ UNCHANGED <<date_parts, date_str, date_result, events_json>>
    /\ UNCHANGED detail_vars

\* scraper.py:575: what main does with r, the outcome of scrape_imfs()
ImfsScraped(fetched, r) ==
    /\ page' = [source |-> "imfs", fetched |-> fetched]
    /\ scraped' = scraped \cup {"imfs"}
    /\ events' = r.events
    /\ IF r.raised
       THEN /\ pc' = "raised"
            /\ fetch_failed' = fetch_failed \cup {"imfs"}
            /\ UNCHANGED all_events
       ELSE /\ all_events' = all_events \o r.events
            /\ pc' = "aggregate"
            /\ UNCHANGED fetch_failed

\* scraper.py:575
MainScrapeImfs ==
    /\ pc = "imfs"
    /\ \E fetched \in MainImfsPages : ImfsScraped(fetched, scrape_imfs(fetched))
    /\ UNCHANGED <<date_parts, date_str, date_result, DETAIL_CACHE, next_src, events_json>>
    /\ UNCHANGED detail_vars

\* scraper.py:577-591
MainWrite ==
    /\ pc = "aggregate"
    /\ events_json' = <<SortByDate(unique_events(all_events))>>
    /\ pc' = "done"
    /\ UNCHANGED <<date_parts, date_str, date_result, page, events, DETAIL_CACHE,
                   next_src, all_events, fetch_failed, scraped>>
    /\ UNCHANGED detail_vars

Next == MainScrapeTable \/ MainScrapeImfs \/ MainWrite

Spec == Init /\ [][Next]_vars

\* one call of an extractor on a page
ExtractInit ==
    /\ pc = "scrape"
    /\ date_parts = <<"", "", "">>
    /\ date_str = ""
    /\ date_result = NoDate
    /\ page \in {[source |-> ALL_SEMINARS[1].id, fetched |-> f] :
                    f \in TablePages(GoodRows \cup SkippedRows)}
                \cup {[source |-> ALL_SEMINARS[7].id, fetched |-> f] : f \in TablePages(FewRows)}
                \cup {[source |-> "imfs", fetched |-> f] : f \in ImfsPages(FrameInputs)}
    /\ events = <<>>
    /\ DETAIL_CACHE = EmptyMap
    /\ next_src = 1
    /\ all_events = <<>>
    /\ events_json = <<>>
    /\ fetch_failed = {}
    /\ scraped = {}
    /\ NoLookups

ConfigOf(id) == CHOOSE cfg \in {ALL_SEMINARS[i] : i \in 1..Len(ALL_SEMINARS)} : cfg.id = id

\* the call returns r.events or raises
Returned(r) ==
    /\ events' = r.events
    /\ pc' = IF r.raised THEN "raised" ELSE "returned"

\* scraper.py:347-432
CallScrapeWiwiTable ==
    /\ pc = "scrape"
    /\ page.source # "imfs"
    /\ Returned(scrape_wiwi_table(ConfigOf(page.source), page.fetched, DETAIL_CACHE))
    /\ DETAIL_CACHE' = scrape_wiwi_table(ConfigOf(page.source), page.fetched, DETAIL_CACHE).cache
    /\ UNCHANGED <<date_parts, date_str, date_result, page, next_src, all_events,
                   events_json, fetch_failed, scraped>>
    /\ UNCHANGED detail_vars

\* scraper.py:435-564
CallScrapeImfs ==
    /\ pc = "scrape"
    /\ page.source = "imfs"
    /\ Returned(scrape_imfs(page.fetched))
    /\ UNCHANGED <<date_parts, date_str, date_result, page, DETAIL_CACHE, next_src,
                   all_events, events_json, fetch_failed, scraped>>
    /\ UNCHANGED detail_vars

ExtractNext == CallScrapeWiwiTable \/ CallScrapeImfs

SpecExtract == ExtractInit /\ [][ExtractNext]_vars

\* one call of parse_date
DateInit ==
    /\ pc = "parse_date"
    /\ date_parts \in {<<w, f, t>> : w \in WeekdayNoise, f \in DateForms, t \in TrailingNoise}
    /\ date_str = date_parts[1] \o date_parts[2] \o date_parts[3]
    /\ date_result = NoDate
    /\ page = NoPage
    /\ events = <<>>
    /\ DETAIL_CACHE = EmptyMap
    /\ next_src = 1
    /\ all_events = <<>>
    /\ events_json = <<>>
    /\ fetch_failed = {}
    /\ scraped = {}
    /\ NoLookups

\* scraper.py:175-242
CallParseDate ==
    /\ pc = "parse_date"
    /\ date_result' = parse_date(date_str)
    /\ pc' = "returned"
    /\ UNCHANGED <<date_parts, date_str, page, events, DETAIL_CACHE, next_src,
                   all_events, events_json, fetch_failed, scraped>>
    /\ UNCHANGED detail_vars

DateNext == CallParseDate

SpecDate == DateInit /\ [][DateNext]_vars

\* the urls looked up: none (a row without link) and two detail pages
DetailUrls ==
    {"", WIWI \o "/abteilungen/finance/events/e1.html",
     WIWI \o "/abteilungen/finance/events/e2.html"}

\* what the network can answer to one fetch of a detail page, whatever it
\* answered before
DetailOutcomes == {PageFull, PageBadDate, PageBlank, PageNoContainer, PageUnreachable}

\* the longest sequence of lookups followed
MaxLookups == 4

\* a run in which scrape_wiwi_details is called again and again
DetailsInit ==
    /\ pc = "details"
    /\ date_parts = <<"", "", "">>
    /\ date_str = ""
    /\ date_result = NoDate
    /\ page = NoPage
    /\ events = <<>>
    /\ DETAIL_CACHE = EmptyMap
    /\ next_src = 1
    /\ all_events = <<>>
    /\ events_json = <<>>
    /\ fetch_failed = {}
    /\ scraped = {}
    /\ NoLookups

\* scraper.py:270-344: the call scrape_wiwi_details(url) has given r, having made
\* the calls of fetch in fetches
DetailLookedUp(url, r, fetches) ==
    /\ lookup' = [url |-> url, result |-> r.result, repeat |-> url \in DOMAIN first_lookup]
    /\ first_lookup' = IF url \in DOMAIN first_lookup THEN first_lookup
                       ELSE first_lookup @@ (url :> r.result)
    /\ DETAIL_CACHE' = r.cache
    /\ fetch_log' = fetch_log \o fetches
    /\ lookups' = lookups + 1

\* scraper.py:270-344, called as scraper.py:401 calls it: any url, the network
\* answering anything if it is asked
CallScrapeWiwiDetails ==
    /\ pc = "details"
    /\ lookups < MaxLookups
    /\ \E url \in DetailUrls, fetched \in DetailOutcomes :
          DetailLookedUp(url, scrape_wiwi_details(url, DETAIL_CACHE, fetched),
                         Fetches(url, DETAIL_CACHE, fetched))
    /\ UNCHANGED <<pc, date_parts, date_str, date_result, page, events, next_src,
                   all_events, events_json, fetch_failed, scraped>>

DetailsNext == CallScrapeWiwiDetails

SpecDetails == DetailsInit /\ [][DetailsNext]_vars

-----------------------------------------------------------------------------
(* Properties of the aggregator, checked on the runs of main (Spec)        *)

\* the list main dumped
Written == events_json[1]

\* the index in evs of the earliest record with the given key
FirstWithKey(evs, key) == SetMin({i \in 1..Len(evs) : EventKey(evs[i]) = key})

KeysOf(evs) == {EventKey(evs[i]) : i \in 1..Len(evs)}

\* C1: the output holds exactly one record per key (seminar_id, title, date) of
\* the concatenated extractor output, and it is the earliest record of that key,
\* every field unchanged; later records of the key are dropped, never merged.
C1_FirstSeenWins ==
    pc = "done" =>
        /\ \A i, j \in 1..Len(Written) : EventKey(Written[i]) = EventKey(Written[j]) => i = j
        /\ KeysOf(Written) = KeysOf(all_events)
        /\ \A i \in 1..Len(Written) :
              Written[i] = all_events[FirstWithKey(all_events, EventKey(Written[i]))]

\* a run in which a later record shares its key with an earlier one but names
\* another speaker: the earlier one is written, the later one is not
C1_Witness ==
    /\ pc = "done"
    /\ \E i, j \in 1..Len(all_events) :
          /\ i < j
          /\ EventKey(all_events[i]) = EventKey(all_events[j])
          /\ all_events[i].speaker # all_events[j].speaker
          /\ \E k \in 1..Len(Written) : Written[k] = all_events[i]
          /\ \A k \in 1..Len(Written) : Written[k] # all_events[j]

\* an ISO date as <<year, month, day>>
DateTuple(iso) ==
    <<ToInt(SubSeq(iso, 1, 4)), ToInt(SubSeq(iso, 6, 7)), ToInt(SubSeq(iso, 9, 10))>>

\* the day a is not after the day b
NotAfter(a, b) ==
    \/ DateTuple(a)[1] < DateTuple(b)[1]
    \/ /\ DateTuple(a)[1] = DateTuple(b)[1]
       /\ \/ DateTuple(a)[2] < DateTuple(b)[2]
          \/ DateTuple(a)[2] = DateTuple(b)[2] /\ DateTuple(a)[3] <= DateTuple(b)[3]

\* C2: the output is non-decreasing by date, and two written records of the
\* same date stand in the order they had in the concatenated extractor output.
C2_SortedAndStable ==
    pc = "done" =>
        \A i, j \in 1..Len(Written) :
            i < j =>
                /\ NotAfter(Written[i].date, Written[j].date)
                /\ Written[i].date = Written[j].date =>
                      FirstWithKey(all_events, EventKey(Written[i]))
                          < FirstWithKey(all_events, EventKey(Written[j]))

\* a run whose extractor output is out of date order and holds two records of
\* different keys on the same day
C2_Witness ==
    /\ pc = "done"
    /\ \E i, j \in 1..Len(all_events) :
          i < j /\ ~ NotAfter(all_events[i].date, all_events[j].date)
    /\ \E i, j \in 1..Len(Written) : i < j /\ Written[i].date = Written[j].date

\* the sources of a run
AllSources == {SEMINARS[i].id : i \in 1..Len(SEMINARS)} \cup {"imfs"}

\* C3: when the fetch of a source's top-level page fails, the run goes on: the
\* exception does not leave main, every source is scraped and the output is written.
C3_FailedFetchIsContained ==
    fetch_failed # {} =>
        /\ pc # "raised"
        /\ pc = "done" => scraped = AllSources /\ events_json # <<>>

\* the optional fields of a record
OptionalFields == {"speaker_url", "start_time", "end_time", "description", "description_html"}

\* C4: every written record has the same field set, the optional fields
\* speaker_url, start_time, end_time, description and description_html included.
C4_SameFieldSet ==
    pc = "done" =>
        \A i, j \in 1..Len(Written) :
            /\ DOMAIN Written[i] = DOMAIN Written[j]
            /\ OptionalFields \subseteq DOMAIN Written[i]

-----------------------------------------------------------------------------
(* Properties of the extractors, checked on single calls (SpecExtract)     *)

\* a call of scrape_wiwi_table, of scrape_imfs, has returned
TableReturned == pc = "returned" /\ page.source # "imfs"

ImfsReturned == pc = "returned" /\ page.source = "imfs"

\* the rows of the table page, the frames of the narrative page
PageRows == IF Has(page.fetched.table) THEN page.fetched.table[1] ELSE <<>>

PageFrames == IF Has(page.fetched.content) THEN page.fetched.content[1] ELSE <<>>

\* what a row holds: its date parsed, its title, its speaker, its detail page
RowDate(tds) == parse_date(RowDateText(tds))

TitleOfRow(tds) == RowTitle(FindTd(tds, "summary", ItemAt(tds, 3)))

SpeakerOfRow(tds) == RowSpeaker(FindTd(tds, "speaker", ItemAt(tds, 2)))

SpeakerUrlOfRow(cfg, tds) ==
    SpeakerUrl(cfg.page, LinkHref(FindTd(tds, "speaker", ItemAt(tds, 2))))

DetailsUrlOfRow(cfg, tds) ==
    DetailsUrl(cfg.page, LinkHref(FindTd(tds, "summary", ItemAt(tds, 3))))

\* a row with a date cell that is not empty and parses, and with a title
Qualifies(tds) ==
    /\ tds # <<>>
    /\ RowDateText(tds) # ""
    /\ RowDate(tds).ok
    /\ TitleOfRow(tds) # ""

Qualifying == SelectSeq(PageRows, Qualifies)

\* the mapping the detail-page extractor gave for a record's detail page
DetailOf(ev) == Get(DETAIL_CACHE, ev.details_url, EmptyMap)

\* the start date text of the detail page at url, "" without one
DetailDateText(url) ==
    IF fetch(url).ok /\ Has(fetch(url).container)
    THEN _clean_label_value(TextOf(fetch(url).container[1].startdate), "When:")
    ELSE ""

DetailDate(url) == parse_date(_extract_date_candidate(DetailDateText(url)))

\* a text YYYY-MM-DD that names a day of the calendar
IsIsoDate(t) ==
    /\ Len(t) = 10
    /\ DigitsAt(t, 1, 4) /\ Ch(t, 5) = "-" /\ DigitsAt(t, 6, 2) /\ Ch(t, 8) = "-"
    /\ DigitsAt(t, 9, 2)
    /\ DateTuple(t)[1] >= 1
    /\ DateTuple(t)[2] \in 1..12
    /\ DateTuple(t)[3] >= 1
    /\ DateTuple(t)[3] <=
          (IF DateTuple(t)[2] \in {1, 3, 5, 7, 8, 10, 12} THEN 31
           ELSE IF DateTuple(t)[2] # 2 THEN 30
           ELSE IF DateTuple(t)[1] % 4 = 0
                   /\ (DateTuple(t)[1] % 100 # 0 \/ DateTuple(t)[1] % 400 = 0) THEN 29
           ELSE 28)

\* the rows whose date text parsed
DatedRows == {k \in 1..Len(PageRows) : PageRows[k] # <<>> /\ RowDate(PageRows[k]).ok}

\* the days the rows' date texts name
RowDays == {isoformat(RowDate(PageRows[k])) : k \in DatedRows}

\* a record's date is the day a date text parsed to
IsDay(ev, parsed) == parsed.ok /\ ev.date = isoformat(parsed)

\* a record's date is the day of its detail page when the detail mapping holds
\* a date, which it does only when the page's date text parsed; else it is the
\* day of a row whose date text parsed
DateFromRow(ev, days) ==
    IF "date" \in DOMAIN DetailOf(ev)
    THEN DetailDateText(ev.details_url) # "" /\ IsDay(ev, DetailDate(ev.details_url))
    ELSE ev.date \in days

\* the second paragraph of a frame opens with a strong element whose text parses
FrameDateParses(frame) == FrameDate(FrameStrongs(ItemAt(frame.paragraphs, 2))) # <<>>

\* C5: every record an extractor emits carries a valid ISO calendar date; a row
\* or block whose date text does not parse emits nothing; a detail-page date
\* replaces the row's date only when the detail page's date text parsed.
C5_ValidDates ==
    /\ pc = "returned" => \A i \in 1..Len(events) : IsIsoDate(events[i].date)
    /\ TableReturned =>
          /\ Len(events) <= Cardinality(DatedRows)
          /\ \A i \in 1..Len(events) : DateFromRow(events[i], RowDays)
    /\ ImfsReturned =>
          Len(events) <= Cardinality({k \in 1..Len(PageFrames) :
                                        FrameDateParses(PageFrames[k])})

\* a table with a row whose date text does not parse and a row whose date the
\* detail page replaced
C5_Witness ==
    /\ TableReturned
    /\ \E k \in 1..Len(PageRows) :
          PageRows[k] # <<>> /\ RowDateText(PageRows[k]) # "" /\ ~ RowDate(PageRows[k]).ok
    /\ \E i \in 1..Len(events) :
          "date" \in DOMAIN DetailOf(events[i]) /\ events[i].date \notin RowDays

\* a record is that of a row: its detail link, its title and its speaker
RecordOfRow(ev, cfg, tds) ==
    /\ ev.seminar_id = cfg.id
    /\ ev.details_url = Or(DetailsUrlOfRow(cfg, tds), cfg.page)
    /\ ev.title = Get(DetailOf(ev), "title", TitleOfRow(tds))
    /\ ev.speaker = Get(DetailOf(ev), "speaker", SpeakerOfRow(tds))

\* the records are those of the rows, one each, in order
RecordsOfRows(evs, cfg, rows) ==
    /\ Len(evs) = Len(rows)
    /\ \A i \in 1..Len(evs) : RecordOfRow(evs[i], cfg, rows[i])

Override(ev, field, other) ==
    ev[field] = IF field \in DOMAIN DetailOf(ev) THEN DetailOf(ev)[field] ELSE other

\* the detail page at url cannot be fetched or lacks #calendar-event
NoDetail(url) == ~ fetch(url).ok \/ ~ Has(fetch(url).container)

\* the fields of the record of a row under the precedence detail page, row,
\* config; url is the row's detail link, "" without one
RowPrecedence(ev, cfg, tds, url) ==
    /\ Override(ev, "title", TitleOfRow(tds))
    /\ Override(ev, "speaker", SpeakerOfRow(tds))
    /\ Override(ev, "speaker_url", SpeakerUrlOfRow(cfg, tds))
    /\ Override(ev, "date", isoformat(RowDate(tds)))
    /\ Override(ev, "raw_date", RowDateText(tds))
    /\ Override(ev, "time_info", cfg.time_info)
    /\ Override(ev, "location", cfg.location)
    /\ url # "" => url \in DOMAIN DETAIL_CACHE /\ (NoDetail(url) => DetailOf(ev) = EmptyMap)

\* the precedence holds for the records of the rows, one each, in order
PrecedenceOfRows(evs, cfg, rows) ==
    /\ Len(evs) = Len(rows)
    /\ \A i \in 1..Len(evs) :
          RowPrecedence(evs[i], cfg, rows[i], DetailsUrlOfRow(cfg, rows[i]))

\* C7: each of title, speaker, speaker_url, date, raw_date, time_info and
\* location of a row's record is the detail mapping's value when the mapping
\* holds the field, else the row's value (the config's for time_info and
\* location); a detail page that cannot be fetched or lacks its container gives
\* the empty mapping and no failure.
C7_DetailOverridesRow ==
    pc \in {"returned", "raised"} /\ page.source # "imfs" /\ page.fetched.ok =>
        /\ pc = "returned"
        /\ PrecedenceOfRows(events, ConfigOf(page.source), Qualifying)

\* a record whose title is the detail page's, not the row's, and a record of a
\* row whose detail page could not be fetched
C7_Witness ==
    /\ TableReturned
    /\ Len(events) = Len(Qualifying)
    /\ \E i \in 1..Len(events) :
          /\ "title" \in DOMAIN DetailOf(events[i])
          /\ events[i].title # TitleOfRow(Qualifying[i])
    /\ \E i \in 1..Len(events) :
          /\ DetailsUrlOfRow(ConfigOf(page.source), Qualifying[i]) # ""
          /\ ~ fetch(DetailsUrlOfRow(ConfigOf(page.source), Qualifying[i])).ok
          /\ events[i].title = TitleOfRow(Qualifying[i])

\* the index in a heading of its first connective " with " or " mit ", 0 without one
ConnectiveAt(heading) ==
    LET at == {i \in 1..Len(heading) :
                  \E c \in {" with ", " mit "} : SubSeq(heading, i, i + Len(c) - 1) = c
                                                 /\ i + Len(c) - 1 <= Len(heading)}
    IN  IF at = {} THEN 0 ELSE SetMin(at)

\* the part of a heading before its connective, and the part after it
BeforeConnective(heading) == Strip(SubSeq(heading, 1, ConnectiveAt(heading) - 1))

AfterConnective(heading) ==
    Strip(SubSeq(heading, SpanEnd(heading, ConnectiveAt(heading) + 1, AlphaChars),
                 Len(heading)))

\* the page of the scenario: one block, headed "IMFS Policy Lecture with Jane Doe"
ScenarioPage == [ok |-> TRUE, content |-> <<<<FrameLectureWith>>>>]

\* C8: a block whose heading holds the connective "with" or "mit", and from
\* which no speaker was recovered otherwise, gives a record whose series name is
\* the part of the heading before the connective and whose speaker is the part
\* after it; the block headed "IMFS Policy Lecture with Jane Doe" with the
\* paragraph "27. November 2025", "14:00 Uhr", "Room A" gives one record with
\* speaker "Jane Doe", date 2025-11-27, time_info "14:00" and location "Room A".
C8_HeadingSplitAtConnective ==
    ImfsReturned =>
        /\ page.fetched = ScenarioPage =>
              /\ Len(events) = 1
              /\ events[1].seminar_name = "IMFS Policy Lecture"
              /\ events[1].speaker = "Jane Doe"
              /\ events[1].date = "2025-11-27"
              /\ events[1].time_info = "14:00"
              /\ events[1].location = "Room A"
        /\ \A k \in 1..Len(PageFrames) :
              /\ Len(PageFrames) = 1
              /\ Has(PageFrames[k].h2)
              /\ ConnectiveAt(Strip(PageFrames[k].h2[1])) # 0
              /\ PageFrames[k].paragraphs # <<>>
              /\ FrameSpeaker(PageFrames[k].paragraphs[1]) = ""
              /\ FrameDateParses(PageFrames[k])
              => /\ Len(events) = 1
                 /\ events[1].speaker = AfterConnective(Strip(PageFrames[k].h2[1]))
                 /\ events[1].seminar_name
                       = SeminarDisplay(BeforeConnective(Strip(PageFrames[k].h2[1])))

\* C10: every record an extractor emits has a title that is not empty.
C10_TitleNeverEmpty ==
    pc = "returned" => \A i \in 1..Len(events) : events[i].title # ""

\* a block whose own title is empty and whose record takes the series name, and
\* a block whose title is its own
C10_Witness ==
    /\ ImfsReturned
    /\ Len(events) = 2
    /\ Len(PageFrames) = 2
    /\ FrameTitle(PageFrames[1].paragraphs[1]) = ""
    /\ events[1].title = events[1].seminar_name
    /\ events[2].title # events[2].seminar_name

-----------------------------------------------------------------------------
(* Properties of the date normaliser, checked on single calls (SpecDate)   *)

\* the day each of the six forms names
CanonicalDate ==
    "27.11.2025" :> DateOk(2025, 11, 27)
    @@ "27. November 2025" :> DateOk(2025, 11, 27)
    @@ "Nov 18, 2025" :> DateOk(2025, 11, 18)
    @@ "04 Nov 2025" :> DateOk(2025, 11, 4)
    @@ "2025-11-04" :> DateOk(2025, 11, 4)
    @@ "2025-11-04T12:30" :> DateOk(2025, 11, 4)

\* C9: for each of the six forms parse_date returns the day the form names,
\* whatever weekday token stands before it and whatever time of day ending in
\* "Uhr" stands behind it.
C9_NoiseIndependent ==
    pc = "returned" => date_result = CanonicalDate[date_parts[2]]

-----------------------------------------------------------------------------
(* Properties of the detail-page cache, checked on sequences of lookups    *)
(* (SpecDetails)                                                           *)

\* the calls of fetch made for url so far
FetchesOf(url) == {i \in 1..Len(fetch_log) : fetch_log[i].url = url}

\* C11: within one run no url is fetched more than once by the detail-page
\* lookups, and every lookup of a url returns the mapping the first lookup of that
\* url returned, whether that first lookup found the fields, failed to fetch or
\* found no container: a repeated lookup fetches nothing, a failed fetch is not
\* tried again.
C11_FetchedAtMostOnce ==
    /\ \A url \in DetailUrls : Cardinality(FetchesOf(url)) <= 1
    /\ lookups > 0 =>
          /\ lookup.url \in DOMAIN first_lookup
          /\ lookup.result = first_lookup[lookup.url]

\* a url whose fetch failed is looked up again, after another url was fetched
\* and gave fields
C11_Witness ==
    /\ lookup.repeat
    /\ lookup.url # ""
    /\ \E i \in FetchesOf(lookup.url) : ~ fetch_log[i].ok
    /\ \E url \in DOMAIN DETAIL_CACHE : DETAIL_CACHE[url] # EmptyMap
    /\ lookup.result = EmptyMap

====
